---- MODULE Spec2Model ----
(***************************************************************************)
(* Model of hyperliquid/websocket_manager.py: the WebsocketManager thread, *)
(* its subscription registry and queue, the health checker, and the two    *)
(* identifier functions.                                                   *)
(*                                                                         *)
(* Two granularities are given over the same variables:                    *)
(*   Spec      every handler runs to completion (one caller, one event at  *)
(*             a time);                                                    *)
(*   SpecConc  subscribe and on_open are split at the points where the     *)
(*             interpreter can switch threads (attribute loads and stores, *)
(*             list appends, sends).                                       *)
(* FairSpec is Spec with the fairness the background threads have.         *)
(***************************************************************************)
EXTENDS Integers, Sequences, FiniteSets, TLC

\* ---------------------------------------------------------------- bounds
MaxId == 2

\* ------------------------------------------------------------ strings
\* A Python str is a sequence of characters; str.lower() maps each one.
LowerChar(c) ==
  CASE c = "E" -> "e"
    [] c = "T" -> "t"
    [] c = "H" -> "h"
    [] c = "A" -> "a"
    [] c = "B" -> "b"
    [] OTHER -> c

Lower(s) == [i \in 1..Len(s) |-> LowerChar(s[i])]

None == <<"None">>

\* ------------------------------------------------- identifier functions
subscription_to_identifier(subscription) ==
  IF subscription.type = "allMids" THEN <<"allMids">>
  ELSE IF subscription.type = "l2Book" THEN <<"l2Book:">> \o Lower(subscription.coin)
  ELSE IF subscription.type = "trades" THEN <<"trades:">> \o Lower(subscription.coin)
  ELSE IF subscription.type = "userEvents" THEN <<"userEvents">>
  ELSE IF subscription.type = "userFills" THEN <<"userFills:">> \o Lower(subscription.user)
  ELSE IF subscription.type = "candle"
    THEN <<"candle:">> \o Lower(subscription.coin) \o <<",">> \o subscription.interval
  ELSE IF subscription.type = "orderUpdates" THEN <<"orderUpdates">>
  ELSE IF subscription.type = "userFundings" THEN <<"userFundings:">> \o Lower(subscription.user)
  ELSE IF subscription.type = "userNonFundingLedgerUpdates"
    THEN <<"userNonFundingLedgerUpdates:">> \o Lower(subscription.user)
  ELSE None

ws_msg_to_identifier(ws_msg) ==
  IF ws_msg.channel = "pong" THEN <<"pong">>
  ELSE IF ws_msg.channel = "allMids" THEN <<"allMids">>
  ELSE IF ws_msg.channel = "l2Book" THEN <<"l2Book:">> \o Lower(ws_msg.data.coin)
  ELSE IF ws_msg.channel = "trades"
    THEN IF Len(ws_msg.data) = 0 THEN None
         ELSE <<"trades:">> \o Lower(ws_msg.data[1].coin)
  ELSE IF ws_msg.channel = "user" THEN <<"userEvents">>
  ELSE IF ws_msg.channel = "userFills" THEN <<"userFills:">> \o Lower(ws_msg.data.user)
  ELSE IF ws_msg.channel = "candle"
    THEN <<"candle:">> \o Lower(ws_msg.data.s) \o <<",">> \o ws_msg.data.i
  ELSE IF ws_msg.channel = "orderUpdates" THEN <<"orderUpdates">>
  ELSE IF ws_msg.channel = "userFundings" THEN <<"userFundings:">> \o Lower(ws_msg.data.user)
  ELSE IF ws_msg.channel = "userNonFundingLedgerUpdates"
    THEN <<"userNonFundingLedgerUpdates:">> \o Lower(ws_msg.data.user)
  ELSE None

\* ------------------------------------------------------------- inputs
ETH == <<"E", "T", "H">>
eth == <<"e", "t", "h">>
UserA == <<"0", "x", "A">>

L2BookETH == [type |-> "l2Book", coin |-> ETH]
L2Booketh == [type |-> "l2Book", coin |-> eth]
UserEventsA == [type |-> "userEvents", user |-> UserA]
OrderUpdatesA == [type |-> "orderUpdates", user |-> UserA]

Requests == {L2BookETH, L2Booketh, UserEventsA, OrderUpdatesA}

\* The requests the threads of SpecConc issue.
ConcRequests == {L2BookETH, UserEventsA}

\* The requests the caller of Spec issues.
CallerRequests == {L2BookETH, UserEventsA, OrderUpdatesA}

Callbacks == {"cb1", "cb2"}

PongMsg == [channel |-> "pong"]
L2BookMsgeth == [channel |-> "l2Book", data |-> [coin |-> eth]]
UserMsg == [channel |-> "user", data |-> <<>>]
OrderUpdatesMsg == [channel |-> "orderUpdates", data |-> <<>>]
TradesEmptyMsg == [channel |-> "trades", data |-> <<>>]


\* Text frames: the server's greeting and a frame that is not JSON.
GreetingMsg == [raw |-> "Websocket connection established."]
NotJsonMsg == [raw |-> "not json"]
\* JSON objects that lack the fields ws_msg_to_identifier reads.
NoChannelMsg == [data |-> <<>>]
L2BookNoDataMsg == [channel |-> "l2Book"]
\* Channels ws_msg_to_identifier has no branch for.
ErrorChannelMsg == [channel |-> "error", data |-> <<>>]
PostMsg == [channel |-> "post", data |-> [id |-> 1]]

Messages ==
  {PongMsg, L2BookMsgeth, UserMsg, OrderUpdatesMsg, TradesEmptyMsg,
   GreetingMsg, NotJsonMsg, NoChannelMsg, L2BookNoDataMsg, ErrorChannelMsg, PostMsg}

\* orjson.loads(message) succeeds.
Parses(message) == "raw" \notin DOMAIN message

\* ws_msg_to_identifier(ws_msg) raises KeyError: no channel, or no data on a
\* channel whose branch reads it.
LacksField(ws_msg) ==
  \/ "channel" \notin DOMAIN ws_msg
  \/ /\ ws_msg.channel \in {"l2Book", "trades", "userFills", "candle", "userFundings",
                            "userNonFundingLedgerUpdates"}
     /\ "data" \notin DOMAIN ws_msg

\* The identifier on_message works with: None when the frame is the greeting,
\* does not parse or lacks a field.
ResolvedKey(message) ==
  IF ~Parses(message) THEN None
  ELSE IF LacksField(message) THEN None
  ELSE ws_msg_to_identifier(message)

Identifiers ==
  {subscription_to_identifier(s) : s \in Requests}
    \cup ({ResolvedKey(m) : m \in Messages} \ {<<"pong">>})

SingletonIdentifiers == {<<"userEvents">>, <<"orderUpdates">>}

\* --------------------------------------------------------------- state
VARIABLES
  subscription_id_counter,  \* self.subscription_id_counter
  ws_ready,                 \* self.ws_ready
  queued_subscriptions,     \* self.queued_subscriptions: Seq of (subscription, ActiveSubscription)
  active_subscriptions,     \* self.active_subscriptions: identifier -> Seq of ActiveSubscription
  sock,                     \* self.ws.sock: "none" (not connected yet), "connected", "closed"
  running,                  \* self.running
  stop_event,               \* self._stop_event.is_set()
  connection_error,         \* self._connection_error
  pong_overdue,             \* time.time() - self.last_pong_time > self.pong_timeout
  last,                     \* the last handler that ran: arguments, messages sent, callbacks invoked, outcome
  close_requested,          \* the caller has called stop()
  loops,                    \* SpecStop: state of ping_sender, health_checker and main_thread
  dispatching,              \* SpecStop: the frame on_message is dispatching and the loop's index
  stopper,                  \* SpecStop: the caller's position in stop()
  stops_returned,           \* SpecStop: how many calls of stop() have returned
  fn,                       \* SpecFn: the arguments and result of the last pure function applied
  th,                       \* SpecConc: per thread, the position in subscribe / on_open and its locals
  oo_i,                     \* SpecConc: index of on_open's for loop over queued_subscriptions
  returned,                 \* SpecConc: (subscription, callback, id) of every caller's subscribe that returned
  wire                      \* SpecConc: every message self.ws.send has sent, in order

vars ==
  <<subscription_id_counter, ws_ready, queued_subscriptions, active_subscriptions, sock,
    running, stop_event, connection_error, pong_overdue, last, close_requested,
    th, oo_i, returned, wire, loops, dispatching, stopper, stops_returned, fn>>

shutdown_vars == <<loops, dispatching, stopper, stops_returned>>

conc_vars == <<th, oo_i, returned, wire, shutdown_vars, fn>>

Callers == {"t1", "t2"}
SocketThread == "ws"
Threads == Callers \cup {SocketThread}

ActiveSubscription(callback, subscription_id) ==
  [callback |-> callback, subscription_id |-> subscription_id]

SubscribeMsg(subscription) == [method |-> "subscribe", subscription |-> subscription]
UnsubscribeMsg(subscription) == [method |-> "unsubscribe", subscription |-> subscription]

Connected == sock = "connected"

\* The session state the specification calls Ready.
Ready == ws_ready /\ Connected /\ ~stop_event

IdleThread == [pc |-> "idle"]

LoopThreads == {"ping_sender", "health_checker", "main_thread"}

\* No pure function has been applied.
NoFn == [op |-> "none"]

InitSession ==
  /\ subscription_id_counter = 0
  /\ ws_ready = FALSE
  /\ queued_subscriptions = <<>>
  /\ active_subscriptions = [k \in Identifiers |-> <<>>]
  /\ sock = "none"
  /\ running = TRUE
  /\ stop_event = FALSE
  /\ connection_error = "none"
  /\ pong_overdue = FALSE
  /\ last = [op |-> "init", sent |-> <<>>, calls |-> <<>>]
  /\ close_requested = FALSE
  /\ th = [t \in Threads |-> IF t = SocketThread THEN [pc |-> "oo_wait"] ELSE IdleThread]
  /\ oo_i = 1
  /\ returned = <<>>
  /\ wire = <<>>
  /\ loops = [t \in LoopThreads |-> "unstarted"]
  /\ dispatching = [i |-> 0]
  /\ stopper = "idle"
  /\ stops_returned = 0

Init == InitSession /\ fn = NoFn

\* ------------------------------------------------------------ subscribe
\* The else branch of subscribe (lines 312-319): ws_ready is set.
\* w: the messages sent so far by the running handler; connected tells
\* whether self.ws.send succeeds or raises.
SubscribeReadyBranch_NoSingletonTest(reg, w, connected, subscription, callback, subscription_id) ==
  LET identifier == subscription_to_identifier(subscription)
      reg2 == [reg EXCEPT ![identifier] =
                 Append(@, ActiveSubscription(callback, subscription_id))]
  IN IF connected
       THEN [reg |-> reg2, sent |-> Append(w, SubscribeMsg(subscription)), raised |-> "none"]
       ELSE [reg |-> reg2, sent |-> w, raised |-> "WebSocketConnectionClosedException"]

SubscribeReadyBranch(reg, w, connected, subscription, callback, subscription_id) ==
  LET identifier == subscription_to_identifier(subscription)
  IN IF identifier \in SingletonIdentifiers /\ Len(reg[identifier]) # 0
       THEN [reg |-> reg, sent |-> w, raised |-> "NotImplementedError"]
       ELSE LET reg2 == [reg EXCEPT ![identifier] =
                           Append(@, ActiveSubscription(callback, subscription_id))]
            IN IF connected
                 THEN [reg |-> reg2, sent |-> Append(w, SubscribeMsg(subscription)),
                       raised |-> "none"]
                 ELSE [reg |-> reg2, sent |-> w,
                       raised |-> "WebSocketConnectionClosedException"]

\* Lines 306-307: the id a call without subscription_id gets.
AllocateId_NoIncrement(counter) == counter

AllocateId(counter) == counter + 1

QueueEntry(subscription, callback, subscription_id) ==
  [subscription |-> subscription,
   active_subscription |-> ActiveSubscription(callback, subscription_id)]

\* subscribe(subscription, callback) as called by the user of the manager
\* (subscription_id is None, so an id is allocated).
subscribe(subscription, callback) ==
  /\ subscription_id_counter < MaxId
  /\ LET subscription_id == AllocateId(subscription_id_counter)
     IN /\ subscription_id_counter' = subscription_id
        /\ IF ~ws_ready
             THEN /\ queued_subscriptions' =
                       Append(queued_subscriptions,
                              QueueEntry(subscription, callback, subscription_id))
                  /\ UNCHANGED active_subscriptions
                  /\ last' = [op |-> "subscribe", subscription |-> subscription,
                              callback |-> callback, subscription_id |-> subscription_id,
                              sent |-> <<>>, calls |-> <<>>, raised |-> "none"]
             ELSE LET r == SubscribeReadyBranch(active_subscriptions, <<>>, Connected,
                                                 subscription, callback, subscription_id)
                  IN /\ active_subscriptions' = r.reg
                     /\ UNCHANGED queued_subscriptions
                     /\ last' = [op |-> "subscribe", subscription |-> subscription,
                                 callback |-> callback, subscription_id |-> subscription_id,
                                 sent |-> r.sent, calls |-> <<>>, raised |-> r.raised]
  /\ UNCHANGED <<ws_ready, sock, running, stop_event, connection_error, pong_overdue,
                 close_requested, conc_vars>>

\* -------------------------------------------------------------- on_open
\* The for loop of on_open: subscribe(subscription, callback, subscription_id) for
\* each queued element from index i on; an exception raised by subscribe ends it.
RECURSIVE ReplayQueue(_, _, _, _)
ReplayQueue(queue, i, reg, w) ==
  IF i > Len(queue)
    THEN [reg |-> reg, sent |-> w, raised |-> "none"]
    ELSE LET q == queue[i]
             r == SubscribeReadyBranch(reg, w, TRUE, q.subscription,
                                       q.active_subscription.callback,
                                       q.active_subscription.subscription_id)
         IN IF r.raised # "none" THEN r ELSE ReplayQueue(queue, i + 1, r.reg, r.sent)

\* The socket connects and WebSocketApp calls on_open.
on_open ==
  /\ sock = "none"
  /\ ~stop_event
  /\ sock' = "connected"
  /\ ws_ready' = TRUE
  /\ LET r == ReplayQueue(queued_subscriptions, 1, active_subscriptions, <<>>)
     IN /\ active_subscriptions' = r.reg
        /\ last' = [op |-> "on_open", sent |-> r.sent, calls |-> <<>>, raised |-> r.raised]
  /\ UNCHANGED <<subscription_id_counter, queued_subscriptions, running, stop_event,
                 connection_error, pong_overdue, close_requested, conc_vars>>

\* ---------------------------------------------------------- unsubscribe
\* unsubscribe once ws_ready is set (lines 325-331).
UnsubscribeReady_SendsOnEveryRemoval(reg, connected, subscription, subscription_id) ==
  LET identifier == subscription_to_identifier(subscription)
      active == reg[identifier]
      new_active == SelectSeq(active, LAMBDA x : x.subscription_id # subscription_id)
  IN IF Len(new_active) # Len(active) /\ ~connected
       THEN [reg |-> reg, sent |-> <<>>, raised |-> "WebSocketConnectionClosedException",
             result |-> FALSE]
       ELSE [reg |-> [reg EXCEPT ![identifier] = new_active],
             sent |-> IF Len(new_active) # Len(active)
                        THEN <<UnsubscribeMsg(subscription)>> ELSE <<>>,
             raised |-> "none",
             result |-> Len(active) # Len(new_active)]

UnsubscribeReady(reg, connected, subscription, subscription_id) ==
  LET identifier == subscription_to_identifier(subscription)
      active == reg[identifier]
      new_active == SelectSeq(active, LAMBDA x : x.subscription_id # subscription_id)
  IN IF Len(new_active) = 0 /\ ~connected
       THEN [reg |-> reg, sent |-> <<>>, raised |-> "WebSocketConnectionClosedException",
             result |-> FALSE]
       ELSE [reg |-> [reg EXCEPT ![identifier] = new_active],
             sent |-> IF Len(new_active) = 0 THEN <<UnsubscribeMsg(subscription)>> ELSE <<>>,
             raised |-> "none",
             result |-> Len(active) # Len(new_active)]

unsubscribe(subscription, subscription_id) ==
  /\ IF ~ws_ready
       THEN /\ last' = [op |-> "unsubscribe", subscription |-> subscription,
                        subscription_id |-> subscription_id, sent |-> <<>>, calls |-> <<>>,
                        raised |-> "NotImplementedError", result |-> FALSE]
            /\ UNCHANGED active_subscriptions
       ELSE LET r == UnsubscribeReady(active_subscriptions, Connected,
                                       subscription, subscription_id)
            IN /\ active_subscriptions' = r.reg
               /\ last' = [op |-> "unsubscribe", subscription |-> subscription,
                           subscription_id |-> subscription_id, sent |-> r.sent,
                           calls |-> <<>>, raised |-> r.raised, result |-> r.result]
  /\ UNCHANGED <<subscription_id_counter, ws_ready, queued_subscriptions, sock, running,
                 stop_event, connection_error, pong_overdue, close_requested, conc_vars>>

\* ----------------------------------------------------------- on_message
\* The callbacks on_message invokes for a message that is not a pong: those of
\* the identifier's list, in order, up to and including the first one that
\* raises (raises_at = 0: none raises); the except clause swallows the error.
Dispatch(reg, ws_msg, raises_at) ==
  LET identifier == ResolvedKey(ws_msg)
  IN IF identifier = None \/ identifier = <<"pong">> THEN <<>>
     ELSE IF raises_at = 0 THEN reg[identifier]
     ELSE SubSeq(reg[identifier], 1, raises_at)

\* The path on_message takes for a frame (lines 185-229). The callbacks of post
\* responses (self._request_callbacks, filled by send_signed_request) are not
\* subscription callbacks and are outside this model.
MessageOutcome(reg, message) ==
  IF message = GreetingMsg THEN "greeting"
  ELSE IF ~Parses(message) THEN "JSONDecodeError"
  ELSE IF LacksField(message) THEN "Exception"
  ELSE IF ws_msg_to_identifier(message) = <<"pong">> THEN "pong"
  ELSE IF message.channel = "post" THEN "post"
  ELSE IF ws_msg_to_identifier(message) = None THEN "empty"
  ELSE IF Len(reg[ws_msg_to_identifier(message)]) = 0 THEN "unexpected"
  ELSE "dispatch"

\* What leaves on_message as an exception: the body is inside a try with
\* except orjson.JSONDecodeError and except Exception (lines 225-229).
OnMessageRaises_OnlyJsonErrorCaught(outcome, callback_raised) ==
  IF outcome = "Exception" \/ callback_raised THEN "Exception" ELSE "none"

OnMessageRaises(outcome, callback_raised) == "none"

on_message(ws_msg, raises_at) ==
  /\ Connected
  /\ ~stop_event
  /\ raises_at <= Len(Dispatch(active_subscriptions, ws_msg, 0))
  /\ pong_overdue' = IF ResolvedKey(ws_msg) = <<"pong">> THEN FALSE ELSE pong_overdue
  /\ last' = [op |-> "on_message", ws_msg |-> ws_msg, sent |-> <<>>,
              calls |-> Dispatch(active_subscriptions, ws_msg, raises_at),
              raises_at |-> raises_at,
              outcome |-> MessageOutcome(active_subscriptions, ws_msg),
              raised |-> OnMessageRaises(MessageOutcome(active_subscriptions, ws_msg),
                                         raises_at # 0)]
  /\ UNCHANGED <<subscription_id_counter, ws_ready, queued_subscriptions,
                 active_subscriptions, sock, running, stop_event, connection_error,
                 close_requested, conc_vars>>

\* ------------------------------------------------------------ stop
\* What stop() does to the session: running and the stop event are set and
\* the socket is closed.
StopSocket_LeavesOpen(s) == s

StopSocket(s) == IF s = "connected" THEN "closed" ELSE s

stop ==
  /\ running' = FALSE
  /\ stop_event' = TRUE
  /\ sock' = StopSocket(sock)
  /\ close_requested' = TRUE
  /\ last' = [op |-> "stop", sent |-> <<>>, calls |-> <<>>]
  /\ UNCHANGED <<subscription_id_counter, ws_ready, queued_subscriptions,
                 active_subscriptions, connection_error, pong_overdue, conc_vars>>

\* ------------------------------------------------------- health checker
\* What one pass of the health checker's loop decides (lines 164-175).
HealthVerdict_IgnoresPong(overdue, connected) ==
  IF ~connected THEN "WebSocketConnectionError" ELSE "none"

HealthVerdict(overdue, connected) ==
  IF overdue THEN "WebSocketTimeoutError"
  ELSE IF ~connected THEN "WebSocketConnectionError"
  ELSE "none"

_health_check_ClearsRegistry ==
  /\ ~stop_event
  /\ LET verdict == HealthVerdict(pong_overdue, Connected)
     IN IF verdict # "none"
          THEN /\ connection_error' = verdict
               /\ running' = FALSE
               /\ stop_event' = TRUE
               /\ sock' = StopSocket(sock)
               /\ active_subscriptions' = [k \in Identifiers |-> <<>>]
          ELSE UNCHANGED <<connection_error, running, stop_event, sock, active_subscriptions>>
  /\ last' = [op |-> "_health_check", sent |-> <<>>, calls |-> <<>>]
  /\ UNCHANGED <<subscription_id_counter, ws_ready, queued_subscriptions,
                 pong_overdue, close_requested, conc_vars>>

\* One pass of the health checker's loop; a verdict other than "none" is
\* followed by self.stop() and the end of the thread.
_health_check ==
  /\ ~stop_event
  /\ LET verdict == HealthVerdict(pong_overdue, Connected)
     IN IF verdict # "none"
          THEN /\ connection_error' = verdict
               /\ running' = FALSE
               /\ stop_event' = TRUE
               /\ sock' = StopSocket(sock)
          ELSE UNCHANGED <<connection_error, running, stop_event, sock>>
  /\ last' = [op |-> "_health_check", sent |-> <<>>, calls |-> <<>>]
  /\ UNCHANGED <<subscription_id_counter, ws_ready, queued_subscriptions,
                 active_subscriptions, pong_overdue, close_requested, conc_vars>>

\* ------------------------------------------------------------ environment
\* The connection drops (socket error or server-initiated close).
SocketLost ==
  /\ Connected
  /\ sock' = "closed"
  /\ last' = [op |-> "SocketLost", sent |-> <<>>, calls |-> <<>>]
  /\ UNCHANGED <<subscription_id_counter, ws_ready, queued_subscriptions,
                 active_subscriptions, running, stop_event, connection_error, pong_overdue,
                 close_requested, conc_vars>>

\* More than pong_timeout seconds pass without a pong.
PongTimeout ==
  /\ ~stop_event
  /\ ~pong_overdue
  /\ pong_overdue' = TRUE
  /\ last' = [op |-> "PongTimeout", sent |-> <<>>, calls |-> <<>>]
  /\ UNCHANGED <<subscription_id_counter, ws_ready, queued_subscriptions,
                 active_subscriptions, sock, running, stop_event, connection_error,
                 close_requested, conc_vars>>

Next ==
  \/ \E s \in CallerRequests, c \in Callbacks : subscribe(s, c)
  \/ \E s \in CallerRequests, i \in 1..MaxId : unsubscribe(s, i)
  \/ on_open
  \/ \E m \in Messages, r \in 0..MaxId : on_message(m, r)
  \/ stop
  \/ _health_check
  \/ SocketLost
  \/ PongTimeout

Spec == Init /\ [][Next]_vars

FairSpec == Spec /\ WF_vars(_health_check) /\ WF_vars(on_open)

\* ------------------------------------------------------------ SpecConc
\* subscribe and on_open, one step per point at which another thread can run.
\* No lock is taken anywhere in subscribe, unsubscribe or on_open.
session_vars ==
  <<running, stop_event, connection_error, pong_overdue, last, close_requested,
    shutdown_vars, fn>>

InFlight == Cardinality({t \in Callers : th[t].pc # "idle"})

\* A caller enters subscribe(subscription, callback).
Call(t, subscription, callback) ==
  /\ th[t].pc = "idle"
  /\ subscription_id_counter < MaxId
  /\ Len(returned) + InFlight < MaxId
  /\ th' = [th EXCEPT ![t] = [pc |-> "s_load", subscription |-> subscription,
                              callback |-> callback]]
  /\ UNCHANGED <<subscription_id_counter, ws_ready, queued_subscriptions,
                 active_subscriptions, sock, session_vars, oo_i, returned, wire>>

\* self.subscription_id_counter += 1, the load ...
LoadCounter(t) ==
  /\ th[t].pc = "s_load"
  /\ th' = [th EXCEPT ![t] = [pc |-> "s_store", subscription |-> @.subscription,
                              callback |-> @.callback, tmp |-> subscription_id_counter]]
  /\ UNCHANGED <<subscription_id_counter, ws_ready, queued_subscriptions,
                 active_subscriptions, sock, session_vars, oo_i, returned, wire>>

\* ... and the store.
StoreCounter(t) ==
  /\ th[t].pc = "s_store"
  /\ subscription_id_counter' = th[t].tmp + 1
  /\ th' = [th EXCEPT ![t] = [pc |-> "s_read", subscription |-> @.subscription,
                              callback |-> @.callback]]
  /\ UNCHANGED <<ws_ready, queued_subscriptions, active_subscriptions, sock,
                 session_vars, oo_i, returned, wire>>

\* subscription_id = self.subscription_id_counter
ReadCounter(t) ==
  /\ th[t].pc = "s_read"
  /\ th' = [th EXCEPT ![t] = [pc |-> "s_ready", subscription |-> @.subscription,
                              callback |-> @.callback,
                              subscription_id |-> subscription_id_counter]]
  /\ UNCHANGED <<subscription_id_counter, ws_ready, queued_subscriptions,
                 active_subscriptions, sock, session_vars, oo_i, returned, wire>>

\* if not self.ws_ready
TestReady(t) ==
  /\ th[t].pc = "s_ready"
  /\ th' = [th EXCEPT ![t].pc = IF ~ws_ready THEN "s_enqueue" ELSE "s_check"]
  /\ UNCHANGED <<subscription_id_counter, ws_ready, queued_subscriptions,
                 active_subscriptions, sock, session_vars, oo_i, returned, wire>>

\* self.queued_subscriptions.append(...)
Enqueue(t) ==
  /\ th[t].pc = "s_enqueue"
  /\ queued_subscriptions' =
       Append(queued_subscriptions,
              QueueEntry(th[t].subscription, th[t].callback, th[t].subscription_id))
  /\ th' = [th EXCEPT ![t].pc = "s_ret"]
  /\ UNCHANGED <<subscription_id_counter, ws_ready, active_subscriptions, sock,
                 session_vars, oo_i, returned, wire>>

\* Where a thread goes when subscribe raises: a caller sees the exception,
\* on_open is abandoned.
AfterRaise(t) == IF t = SocketThread THEN [pc |-> "oo_done"] ELSE IdleThread

\* The singleton test of lines 314-317.
CheckSingleton(t) ==
  /\ th[t].pc = "s_check"
  /\ LET identifier == subscription_to_identifier(th[t].subscription)
     IN th' = IF identifier \in SingletonIdentifiers
                   /\ Len(active_subscriptions[identifier]) # 0
                THEN [th EXCEPT ![t] = AfterRaise(t)]
                ELSE [th EXCEPT ![t].pc = "s_append"]
  /\ UNCHANGED <<subscription_id_counter, ws_ready, queued_subscriptions,
                 active_subscriptions, sock, session_vars, oo_i, returned, wire>>

\* self.active_subscriptions[identifier].append(...)
AppendActive(t) ==
  /\ th[t].pc = "s_append"
  /\ active_subscriptions' =
       [active_subscriptions EXCEPT ![subscription_to_identifier(th[t].subscription)] =
          Append(@, ActiveSubscription(th[t].callback, th[t].subscription_id))]
  /\ th' = [th EXCEPT ![t].pc = "s_send"]
  /\ UNCHANGED <<subscription_id_counter, ws_ready, queued_subscriptions, sock,
                 session_vars, oo_i, returned, wire>>

\* self.ws.send(...)
Send(t) ==
  /\ th[t].pc = "s_send"
  /\ IF Connected
       THEN /\ wire' = Append(wire, SubscribeMsg(th[t].subscription))
            /\ th' = [th EXCEPT ![t].pc = "s_ret"]
       ELSE /\ wire' = wire
            /\ th' = [th EXCEPT ![t] = AfterRaise(t)]
  /\ UNCHANGED <<subscription_id_counter, ws_ready, queued_subscriptions,
                 active_subscriptions, sock, session_vars, oo_i, returned>>

\* return subscription_id, to the caller ...
Return(t) ==
  /\ t \in Callers
  /\ th[t].pc = "s_ret"
  /\ returned' = Append(returned, [subscription |-> th[t].subscription,
                                   callback |-> th[t].callback,
                                   subscription_id |-> th[t].subscription_id])
  /\ th' = [th EXCEPT ![t] = IdleThread]
  /\ UNCHANGED <<subscription_id_counter, ws_ready, queued_subscriptions,
                 active_subscriptions, sock, session_vars, oo_i, wire>>

\* ... or to on_open's loop.
ReturnToLoop ==
  /\ th[SocketThread].pc = "s_ret"
  /\ oo_i' = oo_i + 1
  /\ th' = [th EXCEPT ![SocketThread] = [pc |-> "oo_loop"]]
  /\ UNCHANGED <<subscription_id_counter, ws_ready, queued_subscriptions,
                 active_subscriptions, sock, session_vars, returned, wire>>

\* The socket connects; on_open sets self.ws_ready.
OpenSetReady ==
  /\ th[SocketThread].pc = "oo_wait"
  /\ sock = "none"
  /\ sock' = "connected"
  /\ ws_ready' = TRUE
  /\ th' = [th EXCEPT ![SocketThread] = [pc |-> "oo_loop"]]
  /\ UNCHANGED <<subscription_id_counter, queued_subscriptions, active_subscriptions,
                 session_vars, oo_i, returned, wire>>

\* The for statement of on_open fetches the next element of the list, or ends;
\* the element's subscribe call starts at the ws_ready test (its id is given).
OpenLoop ==
  /\ th[SocketThread].pc = "oo_loop"
  /\ th' = IF oo_i <= Len(queued_subscriptions)
             THEN LET q == queued_subscriptions[oo_i]
                  IN [th EXCEPT ![SocketThread] =
                        [pc |-> "s_ready", subscription |-> q.subscription,
                         callback |-> q.active_subscription.callback,
                         subscription_id |-> q.active_subscription.subscription_id]]
             ELSE [th EXCEPT ![SocketThread] = [pc |-> "oo_done"]]
  /\ UNCHANGED <<subscription_id_counter, ws_ready, queued_subscriptions,
                 active_subscriptions, sock, session_vars, oo_i, returned, wire>>

NextConc ==
  \/ \E t \in Callers, s \in ConcRequests, c \in Callbacks : Call(t, s, c)
  \/ \E t \in Callers : LoadCounter(t)
  \/ \E t \in Callers : StoreCounter(t)
  \/ \E t \in Callers : ReadCounter(t)
  \/ \E t \in Threads : TestReady(t)
  \/ \E t \in Threads : Enqueue(t)
  \/ \E t \in Threads : CheckSingleton(t)
  \/ \E t \in Threads : AppendActive(t)
  \/ \E t \in Threads : Send(t)
  \/ \E t \in Callers : Return(t)
  \/ ReturnToLoop
  \/ OpenSetReady
  \/ OpenLoop

SpecConc == Init /\ [][NextConc]_vars

\* ===================================================================
\* SpecStop: stop() against the three background threads, step by step
\* ===================================================================
MaxStops == 2

StopRequests == {L2BookETH}

manager_vars ==
  <<subscription_id_counter, ws_ready, queued_subscriptions, active_subscriptions,
    connection_error, pong_overdue, th, oo_i, returned, wire, fn>>

\* run(): starts the ping sender and the health checker, records the current
\* thread as main_thread and enters ws.run_forever().
run ==
  /\ loops["main_thread"] = "unstarted"
  /\ loops' = [t \in LoopThreads |-> IF t = "main_thread" THEN "reading" ELSE "waiting"]
  /\ last' = [op |-> "run", sent |-> <<>>, calls |-> <<>>]
  /\ UNCHANGED <<manager_vars, running, stop_event, sock, close_requested,
                 dispatching, stopper, stops_returned>>

\* The socket opens inside run_forever().
Open ==
  /\ loops["main_thread"] = "reading"
  /\ on_open

\* send_ping / _health_check: _stop_event.wait(...) returns True once the event
\* is set and the thread returns.
LoopExit(t) ==
  /\ t \in {"ping_sender", "health_checker"}
  /\ loops[t] = "waiting"
  /\ stop_event
  /\ loops' = [loops EXCEPT ![t] = "terminated"]
  /\ last' = [op |-> "LoopExit", thread |-> t, sent |-> <<>>, calls |-> <<>>]
  /\ UNCHANGED <<manager_vars, running, stop_event, sock, close_requested,
                 dispatching, stopper, stops_returned>>

\* run_forever() hands a frame with subscribers to on_message, which reaches the
\* loop over the identifier's list (lines 220-223).
Receive(ws_msg) ==
  /\ loops["main_thread"] = "reading"
  /\ Connected
  /\ MessageOutcome(active_subscriptions, ws_msg) = "dispatch"
  /\ loops' = [loops EXCEPT !["main_thread"] = "dispatching"]
  /\ dispatching' = [i |-> 1, ws_msg |-> ws_msg]
  /\ last' = [op |-> "Receive", ws_msg |-> ws_msg, sent |-> <<>>, calls |-> <<>>]
  /\ UNCHANGED <<manager_vars, running, stop_event, sock, close_requested,
                 stopper, stops_returned>>

\* The list the loop iterates: the list object line 218 fetched. subscribe
\* appends to that object in place; unsubscribe stores a new list under the
\* identifier (line 330), after which the loop still holds the old one.
DispatchList ==
  IF "list" \in DOMAIN dispatching THEN dispatching.list
  ELSE active_subscriptions[ResolvedKey(dispatching.ws_msg)]

\* One iteration of the loop: the callback of entry i is invoked. A callback
\* may itself call stop(); stop() then runs on main_thread, waits for the two
\* other threads (they leave their wait at once, the event being set) and skips
\* the join of the current thread.
InvokeCallback(calls_stop) ==
  /\ loops["main_thread"] = "dispatching"
  /\ dispatching.i <= Len(DispatchList)
  /\ dispatching' = [dispatching EXCEPT !.i = @ + 1]
  /\ last' = [op |-> "InvokeCallback", ws_msg |-> dispatching.ws_msg, sent |-> <<>>,
              calls |-> <<DispatchList[dispatching.i]>>,
              calls_stop |-> calls_stop]
  /\ IF calls_stop
       THEN /\ stops_returned < MaxStops
            /\ running' = FALSE
            /\ stop_event' = TRUE
            /\ sock' = StopSocket(sock)
            /\ close_requested' = TRUE
            /\ loops' = [t \in LoopThreads |->
                           IF t = "main_thread" THEN loops[t] ELSE "terminated"]
            /\ stops_returned' = stops_returned + 1
       ELSE UNCHANGED <<running, stop_event, sock, close_requested, loops, stops_returned>>
  /\ UNCHANGED <<manager_vars, stopper>>

\* The loop is over and on_message returns to run_forever().
DispatchEnd ==
  /\ loops["main_thread"] = "dispatching"
  /\ dispatching.i > Len(DispatchList)
  /\ loops' = [loops EXCEPT !["main_thread"] = "reading"]
  /\ dispatching' = [i |-> 0]
  /\ last' = [op |-> "DispatchEnd", sent |-> <<>>, calls |-> <<>>]
  /\ UNCHANGED <<manager_vars, running, stop_event, sock, close_requested,
                 stopper, stops_returned>>

\* run_forever() returns: keep_running is False or the socket is closed.
MainExit ==
  /\ loops["main_thread"] = "reading"
  /\ stop_event \/ sock = "closed"
  /\ loops' = [loops EXCEPT !["main_thread"] = "terminated"]
  /\ last' = [op |-> "MainExit", sent |-> <<>>, calls |-> <<>>]
  /\ UNCHANGED <<manager_vars, running, stop_event, sock, close_requested,
                 dispatching, stopper, stops_returned>>

\* stop() called from a thread of the caller: lines 258-259.
StopSetFlags ==
  /\ stopper = "idle"
  /\ stops_returned < MaxStops
  /\ running' = FALSE
  /\ stop_event' = TRUE
  /\ close_requested' = TRUE
  /\ stopper' = "close"
  /\ last' = [op |-> "StopSetFlags", sent |-> <<>>, calls |-> <<>>, raised |-> "none"]
  /\ UNCHANGED <<manager_vars, sock, loops, dispatching, stops_returned>>

\* Lines 261-265.
StopCloseSocket ==
  /\ stopper = "close"
  /\ sock' = StopSocket(sock)
  /\ stopper' = "ping_sender"
  /\ last' = [op |-> "StopCloseSocket", sent |-> <<>>, calls |-> <<>>, raised |-> "none"]
  /\ UNCHANGED <<manager_vars, running, stop_event, close_requested, loops, dispatching,
                 stops_returned>>

\* The thread stop() joins after t, "return" after the last one (lines 269-273).
NextJoin(t) ==
  IF t = "ping_sender" THEN "health_checker"
  ELSE IF t = "health_checker" THEN "main_thread"
  ELSE "return"

\* Lines 274-278 for thread t: main_thread is None before run() and is skipped;
\* joining a thread that was never started raises RuntimeError; otherwise
\* join(timeout=thread_shutdown_timeout) returns when the thread has ended or
\* when the timeout has passed.
JoinThread(t, timed_out) ==
  /\ stopper = t
  /\ t \in LoopThreads
  /\ IF loops[t] = "unstarted" /\ t # "main_thread"
       THEN /\ stopper' = "idle"
            /\ last' = [op |-> "JoinThread", thread |-> t, sent |-> <<>>, calls |-> <<>>,
                        raised |-> "RuntimeError"]
       ELSE /\ loops[t] \in {"unstarted", "terminated"} \/ timed_out
            /\ stopper' = NextJoin(t)
            /\ last' = [op |-> "JoinThread", thread |-> t, sent |-> <<>>, calls |-> <<>>,
                        raised |-> "none"]
  /\ UNCHANGED <<manager_vars, running, stop_event, sock, close_requested, loops,
                 dispatching, stops_returned>>

\* Line 280: stop() returns.
StopReturn ==
  /\ stopper = "return"
  /\ stopper' = "idle"
  /\ stops_returned' = stops_returned + 1
  /\ last' = [op |-> "StopReturn", sent |-> <<>>, calls |-> <<>>, raised |-> "none"]
  /\ UNCHANGED <<manager_vars, running, stop_event, sock, close_requested, loops,
                 dispatching>>

NextStop ==
  \/ \E s \in StopRequests, c \in Callbacks : subscribe(s, c)
  \/ run
  \/ Open
  \/ \E t \in LoopThreads : LoopExit(t)
  \/ \E m \in Messages : Receive(m)
  \/ \E calls_stop \in BOOLEAN : InvokeCallback(calls_stop)
  \/ DispatchEnd
  \/ MainExit
  \/ StopSetFlags
  \/ StopCloseSocket
  \/ \E t \in LoopThreads, timed_out \in BOOLEAN : JoinThread(t, timed_out)
  \/ StopReturn

SpecStop == Init /\ [][NextStop]_vars

\* ===================================================================
\* SpecUnsub: unsubscribe from a caller's thread against the dispatch loop
\* ===================================================================
\* unsubscribe(subscription, subscription_id) while on_message may be inside its
\* loop: the new list replaces the old one in the registry, and a loop that is
\* iterating the identifier's list keeps the list object it fetched.
unsubscribe_during_dispatch(subscription, subscription_id) ==
  /\ ws_ready
  /\ LET r == UnsubscribeReady(active_subscriptions, Connected, subscription, subscription_id)
         identifier == subscription_to_identifier(subscription)
     IN /\ active_subscriptions' = r.reg
        /\ last' = [op |-> "unsubscribe", subscription |-> subscription,
                    subscription_id |-> subscription_id, sent |-> r.sent,
                    calls |-> <<>>, raised |-> r.raised, result |-> r.result]
        /\ dispatching' =
             IF /\ loops["main_thread"] = "dispatching"
                /\ "list" \notin DOMAIN dispatching
                /\ ResolvedKey(dispatching.ws_msg) = identifier
                /\ r.raised = "none"
               THEN [i |-> dispatching.i, ws_msg |-> dispatching.ws_msg,
                     list |-> active_subscriptions[identifier]]
               ELSE dispatching
  /\ UNCHANGED <<subscription_id_counter, ws_ready, queued_subscriptions, sock, running,
                 stop_event, connection_error, pong_overdue, close_requested,
                 th, oo_i, returned, wire, fn, loops, stopper, stops_returned>>

NextUnsub ==
  \/ \E s \in StopRequests, c \in Callbacks : subscribe(s, c)
  \/ run
  \/ Open
  \/ \E m \in Messages : Receive(m)
  \/ InvokeCallback(FALSE)
  \/ DispatchEnd
  \/ \E s \in StopRequests, i \in 1..MaxId : unsubscribe_during_dispatch(s, i)

SpecUnsub == Init /\ [][NextUnsub]_vars

\* ===================================================================
\* SpecPing: the ping sender's loop against the session's life cycle
\* ===================================================================
PingMsg == [method |-> "ping"]

\* One pass of send_ping's loop after _stop_event.wait(ping_interval) has timed
\* out with the event clear: ws.send raises unless the socket is connected,
\* and the bare except leaves the loop (lines 133-137).
send_ping ==
  /\ loops["ping_sender"] = "waiting"
  /\ ~stop_event
  /\ IF Connected
       THEN /\ last' = [op |-> "send_ping", sent |-> <<PingMsg>>, calls |-> <<>>,
                        raised |-> "none"]
            /\ UNCHANGED loops
       ELSE /\ last' = [op |-> "send_ping", sent |-> <<>>, calls |-> <<>>,
                        raised |-> "WebSocketConnectionClosedException"]
            /\ loops' = [loops EXCEPT !["ping_sender"] = "terminated"]
  /\ UNCHANGED <<manager_vars, running, stop_event, sock, close_requested,
                 dispatching, stopper, stops_returned>>

NextPing ==
  \/ \E s \in StopRequests, c \in Callbacks : subscribe(s, c)
  \/ run
  \/ Open
  \/ send_ping
  \/ \E t \in LoopThreads : LoopExit(t)
  \/ SocketLost
  \/ PongTimeout
  \/ _health_check
  \/ stop

SpecPing == Init /\ [][NextPing]_vars

\* ===================================================================
\* SpecFn: the pure functions, applied to inputs drawn by InitFn
\* ===================================================================
usera == <<"0", "x", "a">>
UserB == <<"0", "x", "B">>

Coins == {ETH, eth}
Users == {UserA, usera, UserB}
Intervals == {<<"1", "m">>, <<"1", "h">>}

\* The members of the Subscription union (types.py, lines 39-71).
AllSubscriptions ==
  {[type |-> "allMids"]}
    \cup {[type |-> t, coin |-> c] :
            t \in {"l2Book", "trades", "bbo", "activeAssetCtx"}, c \in Coins}
    \cup {[type |-> t, user |-> u] :
            t \in {"userEvents", "userFills", "orderUpdates", "userFundings",
                   "userNonFundingLedgerUpdates", "webData2"}, u \in Users}
    \cup {[type |-> "candle", coin |-> c, interval |-> i] : c \in Coins, i \in Intervals}
    \cup {[type |-> "activeAssetData", user |-> u, coin |-> c] : u \in Users, c \in Coins}

UpperChar(c) ==
  CASE c = "e" -> "E"
    [] c = "t" -> "T"
    [] c = "h" -> "H"
    [] c = "a" -> "A"
    [] c = "b" -> "B"
    [] OTHER -> c

\* The spelling the server uses for a coin or an address.
Spell(s, upper) == [i \in 1..Len(s) |-> IF upper THEN UpperChar(s[i]) ELSE LowerChar(s[i])]

\* The message the server sends for a subscription: the WsMsg member of the
\* subscription's type (types.py, lines 73-181), with the fields
\* ws_msg_to_identifier reads for candle.
ServerMsg(subscription, upper) ==
  LET t == subscription.type
  IN IF t = "allMids" THEN [channel |-> "allMids", data |-> [mids |-> <<>>]]
     ELSE IF t \in {"l2Book", "bbo", "activeAssetCtx"}
       THEN [channel |-> t, data |-> [coin |-> Spell(subscription.coin, upper)]]
     ELSE IF t = "trades"
       THEN [channel |-> t, data |-> <<[coin |-> Spell(subscription.coin, upper)]>>]
     ELSE IF t = "userEvents" THEN [channel |-> "user", data |-> [fills |-> <<>>]]
     ELSE IF t = "orderUpdates" THEN [channel |-> t, data |-> <<>>]
     ELSE IF t = "candle"
       THEN [channel |-> t,
             data |-> [s |-> Spell(subscription.coin, upper), i |-> subscription.interval]]
     ELSE IF t = "activeAssetData"
       THEN [channel |-> t, data |-> [user |-> Spell(subscription.user, upper),
                                      coin |-> Spell(subscription.coin, upper)]]
     ELSE [channel |-> t, data |-> [user |-> Spell(subscription.user, upper)]]

\* Everything but fn: the pure functions touch no state of the manager.
manager_state ==
  <<subscription_id_counter, ws_ready, queued_subscriptions, active_subscriptions, sock,
    running, stop_event, connection_error, pong_overdue, last, close_requested,
    th, oo_i, returned, wire, shutdown_vars>>

RouteInputs ==
  {[op |-> "input", f |-> "Route", subscription |-> r, upper |-> u] :
     r \in AllSubscriptions, u \in BOOLEAN}

PairInputs ==
  {[op |-> "input", f |-> "IdentifyPair", r1 |-> r1, r2 |-> r2] :
     r1 \in AllSubscriptions, r2 \in AllSubscriptions}

\* subscription_to_identifier on a subscription and ws_msg_to_identifier on the
\* server's message for it.
Route ==
  /\ fn.op = "input"
  /\ fn.f = "Route"
  /\ fn' = [op |-> "Route", subscription |-> fn.subscription,
            ws_msg |-> ServerMsg(fn.subscription, fn.upper),
            identifier |-> subscription_to_identifier(fn.subscription),
            resolved |-> ws_msg_to_identifier(ServerMsg(fn.subscription, fn.upper))]
  /\ UNCHANGED manager_state

\* subscription_to_identifier on two subscriptions.
IdentifyPair ==
  /\ fn.op = "input"
  /\ fn.f = "IdentifyPair"
  /\ fn' = [op |-> "IdentifyPair", r1 |-> fn.r1, r2 |-> fn.r2,
            k1 |-> subscription_to_identifier(fn.r1),
            k2 |-> subscription_to_identifier(fn.r2)]
  /\ UNCHANGED manager_state

\* ------------------------------------------------------ signing.py: bytes
\* A byte string is a sequence of integers 0..255; text is a sequence of
\* one-character strings.
HexDigits == <<"0", "1", "2", "3", "4", "5", "6", "7", "8", "9", "a", "b", "c", "d", "e", "f">>

HexLower(c) ==
  CASE c = "A" -> "a"
    [] c = "B" -> "b"
    [] c = "C" -> "c"
    [] c = "D" -> "d"
    [] c = "E" -> "e"
    [] c = "F" -> "f"
    [] OTHER -> c

\* The value of one hexadecimal digit, either case.
HexVal(c) == (CHOOSE i \in 1..16 : HexDigits[i] = HexLower(c)) - 1

\* s[2:] if s.startswith("0x") else s
StripHexPrefix(s) ==
  IF Len(s) >= 2 /\ s[1] = "0" /\ s[2] = "x" THEN SubSeq(s, 3, Len(s)) ELSE s

\* bytes.fromhex(...) of line 163: two digits per byte.
address_to_bytes(address) ==
  LET digits == StripHexPrefix(address)
  IN [i \in 1..(Len(digits) \div 2) |-> HexVal(digits[2 * i - 1]) * 16 + HexVal(digits[2 * i])]

RECURSIVE ToBytes(_, _)
\* n.to_bytes(length, "big")
ToBytes(n, length) ==
  IF length = 0 THEN <<>> ELSE ToBytes(n \div 256, length - 1) \o <<n % 256>>

\* ord() of the characters of the modelled keys and addresses.
Ord(c) ==
  CASE c = "0" -> 48
    [] c = "1" -> 49
    [] c = "A" -> 65
    [] c = "B" -> 66
    [] c = "a" -> 97
    [] c = "b" -> 98
    [] c = "f" -> 102
    [] c = "x" -> 120

\* msgpack.packb of a str: fixstr header below 32 characters, str 8 header and
\* length from 32 to 255, then the characters.
PackStr(text) ==
  (IF Len(text) < 32 THEN <<160 + Len(text)>> ELSE <<217, Len(text)>>)
    \o [i \in 1..Len(text) |-> Ord(text[i])]

\* The fixstr encodings of the action type names.
PackTypeName(name) ==
  CASE name = "noop" -> <<164, 110, 111, 111, 112>>
    [] name = "setReferrer" -> <<171, 115, 101, 116, 82, 101, 102, 101, 114, 114, 101, 114>>
    [] name = "usdClassTransfer" -> <<176, 117, 115, 100, 67, 108, 97, 115, 115, 84, 114, 97, 110, 115, 102, 101, 114>>
    [] name = "sendAsset" -> <<169, 115, 101, 110, 100, 65, 115, 115, 101, 116>>

\* The key of a dict item: "type", "code" or a one-character key.
PackKey(key) ==
  IF key = "type" THEN <<164, 116, 121, 112, 101>>
  ELSE IF key = "code" THEN <<164, 99, 111, 100, 101>>
  ELSE <<161, Ord(key)>>

\* The value of a dict item: the type name, the referral code (a str) or a
\* positive fixint.
PackValue(key, value) ==
  IF key = "type" THEN PackTypeName(value)
  ELSE IF key = "code" THEN PackStr(value)
  ELSE <<value>>

RECURSIVE PackPairs(_)
PackPairs(pairs) ==
  IF pairs = <<>> THEN <<>>
  ELSE PackKey(pairs[1][1]) \o PackValue(pairs[1][1], pairs[1][2]) \o PackPairs(Tail(pairs))

\* msgpack.packb of a dict of at most 15 items, given as its items in
\* insertion order: fixmap header, then per item its key and its value.
PackDict(dict) == <<128 + Len(dict)>> \o PackPairs(dict)

\* msgpack dispatches on the Python type of its argument. The only list packed
\* is the multi-sig envelope [str, str, dict], recognised here by its shape: a
\* dict's items are pairs, the envelope's first element is an address.
IsEnvelope(value) == Len(value) = 3 /\ Len(value[1]) > 2

\* msgpack.packb(action): fixarray header and the three elements for an
\* envelope, the dict encoding otherwise.
packb(action) ==
  IF IsEnvelope(action)
    THEN <<144 + Len(action)>> \o PackStr(action[1]) \o PackStr(action[2]) \o PackDict(action[3])
    ELSE PackDict(action)

\* keccak(data): the digest stands for the byte string it was computed from.
keccak(data) == [preimage |-> data]

\* An optional integer argument.
NoneInt == [is_none |-> TRUE]
Some(v) == [is_none |-> FALSE, value |-> v]

\* Lines 173-175 of action_hash.
ExpiresSuffix_Truthiness(expires_after) ==
  IF expires_after.is_none \/ expires_after.value = 0 THEN <<>>
  ELSE <<0>> \o ToBytes(expires_after.value, 8)

ExpiresSuffix(expires_after) ==
  IF expires_after.is_none THEN <<>>
  ELSE <<0>> \o ToBytes(expires_after.value, 8)

action_hash_VaultBeforeNonce(action, vault_address, nonce, expires_after) ==
  keccak(packb(action)
           \o (IF vault_address = None THEN <<0>>
               ELSE <<1>> \o address_to_bytes(vault_address))
           \o ToBytes(nonce, 8)
           \o ExpiresSuffix(expires_after))

action_hash(action, vault_address, nonce, expires_after) ==
  keccak(packb(action)
           \o ToBytes(nonce, 8)
           \o (IF vault_address = None THEN <<0>>
               ELSE <<1>> \o address_to_bytes(vault_address))
           \o ExpiresSuffix(expires_after))

Repeat(text, n) == [i \in 1..(n * Len(text)) |-> text[((i - 1) % Len(text)) + 1]]

\* 20-byte addresses as the caller writes them.
Addr0xab == <<"0", "x">> \o Repeat(<<"a", "b">>, 20)
AddrAB == Repeat(<<"A", "B">>, 20)
Addr0x1f == <<"0", "x">> \o Repeat(<<"1", "f">>, 20)

VaultAddresses == {None, Addr0xab, AddrAB, Addr0x1f}
Nonces == {0, 1, 256, 16777217}
ExpiresAfters == {NoneInt, Some(0), Some(1), Some(65536)}
Actions == {<<>>, <<<<"a", 1>>>>, <<<<"a", 1>>, <<"b", 2>>>>}

HashInputs ==
  {[op |-> "input", f |-> "Hash", action |-> a, vault_address |-> v, nonce |-> n,
    expires_after |-> e] :
     a \in Actions, v \in VaultAddresses, n \in Nonces, e \in ExpiresAfters}

\* action_hash applied to one set of arguments.
Hash ==
  /\ fn.op = "input"
  /\ fn.f = "Hash"
  /\ fn' = [op |-> "Hash", action |-> fn.action, vault_address |-> fn.vault_address,
            nonce |-> fn.nonce, expires_after |-> fn.expires_after,
            digest |-> action_hash(fn.action, fn.vault_address, fn.nonce, fn.expires_after)]
  /\ UNCHANGED manager_state

PairNonces == {0, 1}
PairActions == {<<<<"a", 1>>>>}

HashPairInputs ==
  {[op |-> "input", f |-> "HashPair", action |-> a,
    v1 |-> v1, n1 |-> n1, e1 |-> e1, v2 |-> v2, n2 |-> n2, e2 |-> e2] :
     a \in PairActions, v1 \in VaultAddresses, v2 \in VaultAddresses,
     n1 \in PairNonces, n2 \in PairNonces, e1 \in ExpiresAfters, e2 \in ExpiresAfters}

\* action_hash applied to one action with two (vault_address, nonce,
\* expires_after) triples.
HashPair ==
  /\ fn.op = "input"
  /\ fn.f = "HashPair"
  /\ fn' = [op |-> "HashPair", action |-> fn.action,
            v1 |-> fn.v1, n1 |-> fn.n1, e1 |-> fn.e1,
            v2 |-> fn.v2, n2 |-> fn.n2, e2 |-> fn.e2,
            d1 |-> action_hash(fn.action, fn.v1, fn.n1, fn.e1),
            d2 |-> action_hash(fn.action, fn.v2, fn.n2, fn.e2)]
  /\ UNCHANGED manager_state

\* -------------------------------------------- signing.py: user-signed actions
RECURSIVE HexToInt_(_)
HexToInt_(digits) ==
  IF digits = <<>> THEN 0
  ELSE HexToInt_(SubSeq(digits, 1, Len(digits) - 1)) * 16 + HexVal(digits[Len(digits)])

\* int(text, 16), which accepts the 0x prefix.
HexToInt(text) == HexToInt_(StripHexPrefix(text))

\* d[key] = value on a dict, as a function from keys to values.
SetItem_KeepsExisting(dict, key, value) ==
  [k \in DOMAIN dict \cup {key} |-> IF k \in DOMAIN dict THEN dict[k] ELSE value]

SetItem(dict, key, value) ==
  [k \in DOMAIN dict \cup {key} |-> IF k = key THEN value ELSE dict[k]]

\* The literal of line 242.
SignatureChainId == <<"0", "x", "6", "6", "e", "e", "e">>

user_signed_payload(primary_type, payload_types, action) ==
  [domain |-> [name |-> "HyperliquidSignTransaction",
               version |-> "1",
               chainId |-> HexToInt(action["signatureChainId"]),
               verifyingContract |-> "0x0000000000000000000000000000000000000000"],
   types |-> payload_types,
   primaryType |-> primary_type,
   message |-> action]

\* sign_inner(wallet, data): the signature stands for the wallet that signed
\* and the document it signed.
sign_inner(wallet, data) == [signer |-> wallet, signed |-> data]

\* The action as the function leaves it, and what it returns.
sign_user_signed_action(wallet, action, payload_types, primary_type, is_mainnet) ==
  LET with_chain_id == SetItem(action, "signatureChainId", SignatureChainId)
      with_chain == SetItem(with_chain_id, "hyperliquidChain",
                            IF is_mainnet THEN "Mainnet" ELSE "Testnet")
  IN [action |-> with_chain,
      signature |-> sign_inner(wallet,
                               user_signed_payload(primary_type, payload_types, with_chain))]

\* Actions as callers build them, with or without the two fields preset.
BaseAction == [destination |-> "0xd", amount |-> "1"]
CallerChainId == <<"0", "x", "a", "4", "b", "1">>

WithPreset(action, key, value) == IF value = "absent" THEN action ELSE SetItem(action, key, value)

UserActions ==
  {WithPreset(WithPreset(BaseAction, "signatureChainId", c), "hyperliquidChain", h) :
     c \in {"absent", CallerChainId, SignatureChainId}, h \in {"absent", "Mainnet", "Testnet"}}

PrimaryTypes == {"HyperliquidTransaction:UsdSend", "HyperliquidTransaction:Withdraw"}

UserSignInputs ==
  {[op |-> "input", f |-> "SignUser", action |-> a, primary_type |-> t, is_mainnet |-> b] :
     a \in UserActions, t \in PrimaryTypes, b \in BOOLEAN}

\* sign_user_signed_action applied to one action.
SignUser ==
  /\ fn.op = "input"
  /\ fn.f = "SignUser"
  /\ fn' = [op |-> "SignUser", before |-> fn.action, is_mainnet |-> fn.is_mainnet,
            primary_type |-> fn.primary_type,
            out |-> sign_user_signed_action("w1", fn.action, <<>>, fn.primary_type,
                                            fn.is_mainnet)]
  /\ UNCHANGED manager_state

\* ------------------------------------------------ signing.py: L1 actions
construct_phantom_agent(hash, is_mainnet) ==
  [source |-> IF is_mainnet THEN "a" ELSE "b", connectionId |-> hash]

l1_payload(phantom_agent) ==
  [domain |-> [chainId |-> 1337,
               name |-> "Exchange",
               verifyingContract |-> "0x0000000000000000000000000000000000000000",
               version |-> "1"],
   primaryType |-> "Agent",
   message |-> phantom_agent]

sign_l1_action(wallet, action, active_pool, nonce, expires_after, is_mainnet) ==
  sign_inner(wallet,
             l1_payload(construct_phantom_agent(
                          action_hash(action, active_pool, nonce, expires_after), is_mainnet)))

sign_multi_sig_l1_action_payload_KeepsCase(wallet, action, is_mainnet, vault_address, timestamp, expires_after, payload_multi_sig_user, outer_signer) ==
  sign_l1_action(wallet, <<payload_multi_sig_user, outer_signer, action>>,
                 vault_address, timestamp, expires_after, is_mainnet)

sign_multi_sig_l1_action_payload(wallet, action, is_mainnet, vault_address, timestamp, expires_after, payload_multi_sig_user, outer_signer) ==
  sign_l1_action(wallet, <<Lower(payload_multi_sig_user), Lower(outer_signer), action>>,
                 vault_address, timestamp, expires_after, is_mainnet)

Addr0xAB == <<"0", "x">> \o Repeat(<<"A", "B">>, 20)

Wallets == {"w1", "w2"}
MultiSigUsers == {Addr0xab, Addr0xAB, Addr0x1f}
OuterSigners == {Addr0xab, Addr0xAB}

MultiSigInputs ==
  {[op |-> "input", f |-> "SignMultiSig", action |-> a, is_mainnet |-> b,
    vault_address |-> v, timestamp |-> 1, expires_after |-> e,
    w1 |-> w1, u1 |-> u1, o1 |-> o1, w2 |-> w2, u2 |-> u2, o2 |-> o2] :
     a \in PairActions, b \in BOOLEAN, v \in {None, Addr0x1f}, e \in {NoneInt, Some(0)},
     w1 \in Wallets, w2 \in Wallets, u1 \in MultiSigUsers, u2 \in MultiSigUsers,
     o1 \in OuterSigners, o2 \in OuterSigners}

\* Two signers sign one multi-sig L1 action, each with their own wallet and
\* their own spelling of the two addresses.
SignMultiSig ==
  /\ fn.op = "input"
  /\ fn.f = "SignMultiSig"
  /\ fn' = [op |-> "SignMultiSig", before |-> fn.action, action |-> fn.action,
            is_mainnet |-> fn.is_mainnet, vault_address |-> fn.vault_address,
            timestamp |-> fn.timestamp, expires_after |-> fn.expires_after,
            w1 |-> fn.w1, u1 |-> fn.u1, o1 |-> fn.o1,
            w2 |-> fn.w2, u2 |-> fn.u2, o2 |-> fn.o2,
            s1 |-> sign_multi_sig_l1_action_payload(fn.w1, fn.action, fn.is_mainnet,
                     fn.vault_address, fn.timestamp, fn.expires_after, fn.u1, fn.o1),
            s2 |-> sign_multi_sig_l1_action_payload(fn.w2, fn.action, fn.is_mainnet,
                     fn.vault_address, fn.timestamp, fn.expires_after, fn.u2, fn.o2)]
  /\ UNCHANGED manager_state

\* -------------------------------------------- signing.py: fixed-point numbers
\* A number is a decimal fraction [units, decimals] standing for
\* units / 10^decimals; the float arithmetic of the source is taken as exact
\* decimal arithmetic. ExtraDigits is how many decimal places beyond the
\* requested power the modelled inputs can carry.
ExtraDigits == 4

RECURSIVE Pow10(_)
Pow10(n) == IF n = 0 THEN 1 ELSE 10 * Pow10(n - 1)

Abs(n) == IF n < 0 THEN -n ELSE n

\* x * 10**power: the decimal point moves power places.
TimesPow10(x, power) == [units |-> x.units, decimals |-> x.decimals - power]

\* round(x): the nearest integer, ties to the even one.
Round(x) ==
  LET scale == Pow10(x.decimals)
      q == x.units \div scale
      r == x.units % scale
  IN IF 2 * r < scale THEN q
     ELSE IF 2 * r > scale THEN q + 1
     ELSE IF q % 2 = 0 THEN q ELSE q + 1

\* abs(n - x) >= 1e-3 for an integer n.
OffByThousandth(n, x) ==
  1000 * Abs(n * Pow10(x.decimals) - x.units) >= Pow10(x.decimals)

float_to_int_NeverRaises(x, power) ==
  [raised |-> "none", res |-> Round(TimesPow10(x, power))]

float_to_int(x, power) ==
  LET with_decimals == TimesPow10(x, power)
  IN IF OffByThousandth(Round(with_decimals), with_decimals)
       THEN [raised |-> "ValueError"]
       ELSE [raised |-> "none", res |-> Round(with_decimals)]

float_to_int_for_hashing(x) == float_to_int(x, 8)

float_to_usd_int(x) == float_to_int(x, 6)

\* Whole parts and fractional parts (in units of the last modelled digit) of
\* the inputs, relative to the requested power.
WholeParts == {0, 1, 2, 1231}
FractionParts ==
  {0, 1, Pow10(ExtraDigits - 3) - 1, Pow10(ExtraDigits - 3), Pow10(ExtraDigits) \div 2,
   Pow10(ExtraDigits) - Pow10(ExtraDigits - 3), Pow10(ExtraDigits) - Pow10(ExtraDigits - 3) + 1,
   Pow10(ExtraDigits) - 1}

FloatInputs ==
  {[op |-> "input", f |-> "FloatToInt", conversion |-> c,
    x |-> [units |-> sign * (w * Pow10(ExtraDigits) + r),
           decimals |-> (IF c = "float_to_usd_int" THEN 6 ELSE 8) + ExtraDigits]] :
     c \in {"float_to_int_for_hashing", "float_to_usd_int"},
     sign \in {1, -1}, w \in WholeParts, r \in FractionParts}

\* One of the two conversions applied to a number.
FloatToInt ==
  /\ fn.op = "input"
  /\ fn.f = "FloatToInt"
  /\ fn' = [op |-> "FloatToInt", conversion |-> fn.conversion, x |-> fn.x,
            out |-> IF fn.conversion = "float_to_usd_int" THEN float_to_usd_int(fn.x)
                    ELSE float_to_int_for_hashing(fn.x)]
  /\ UNCHANGED manager_state

\* ------------------------------------------------------------ exchange.py
\* dict[key] on a dict given as its items.
Get(dict, key) == dict[CHOOSE i \in 1..Len(dict) : dict[i][1] = key][2]

\* An Exchange object: the wallet, the configured vault address, the value
\* set_expires_after stored and whether base_url is the mainnet URL.
Exchanges ==
  {[wallet |-> "w1", vault_address |-> v, expires_after |-> e, is_mainnet |-> b] :
     v \in {None, Addr0x1f}, e \in {NoneInt, Some(1)}, b \in BOOLEAN}

\* What _post_action hands to self.post: the path and the payload.
_post_action_AlwaysVault(self, action, signature, nonce) ==
  [url_path |-> "/exchange",
   payload |-> [action |-> action,
                nonce |-> nonce,
                signature |-> signature,
                vaultAddress |-> self.vault_address,
                expiresAfter |-> self.expires_after]]

_post_action(self, action, signature, nonce) ==
  [url_path |-> "/exchange",
   payload |-> [action |-> action,
                nonce |-> nonce,
                signature |-> signature,
                vaultAddress |-> IF Get(action, "type") \notin {"usdClassTransfer", "sendAsset"}
                                   THEN self.vault_address ELSE None,
                expiresAfter |-> self.expires_after]]

PostedActions ==
  {<<<<"type", t>>, <<"a", 1>>>> : t \in {"noop", "setReferrer", "usdClassTransfer", "sendAsset"}}

PostActionInputs ==
  {[op |-> "input", f |-> "PostAction", self |-> x, action |-> a, signature |-> g,
    nonce |-> n] :
     x \in Exchanges, a \in PostedActions, g \in {"sig1", "sig2"}, n \in {1, 256}}

\* _post_action applied to an action, a signature and a nonce.
PostAction ==
  /\ fn.op = "input"
  /\ fn.f = "PostAction"
  /\ fn' = [op |-> "PostAction", self |-> fn.self, action |-> fn.action,
            signature |-> fn.signature, nonce |-> fn.nonce,
            posted |-> _post_action(fn.self, fn.action, fn.signature, fn.nonce)]
  /\ UNCHANGED manager_state

\* ----------------------------------------------------------------- api.py
\* A response body: its text, whether it is JSON and of which kind ("invalid"
\* when json.loads raises, "array" for JSON that is not an object), and the
\* parsed value.
TextBody == [text |-> "Invalid JSON", kind |-> "invalid", json |-> [unparsed |-> TRUE]]
ErrorBody ==
  [text |-> "code msg data", kind |-> "object",
   json |-> [code |-> "error_code", msg |-> "error_message", data |-> "error_data"]]
ErrorBodyNoData ==
  [text |-> "code msg", kind |-> "object",
   json |-> [code |-> "error_code", msg |-> "error_message"]]
ErrorBodyNoCode == [text |-> "error", kind |-> "object", json |-> [error |-> "Bad Request"]]
ArrayBody == [text |-> "[]", kind |-> "array", json |-> [items |-> 0]]

Bodies == {TextBody, ErrorBody, ErrorBodyNoData, ErrorBodyNoCode, ArrayBody}
StatusCodes == {200, 302, 399, 400, 404, 429, 499, 500, 503}
Headers == {"headers1", "headers2"}


\* _handle_exception(response): what it raises, "none" when it returns.
_handle_exception(response) ==
  LET status_code == response.status_code
      err == response.body.json
  IN IF status_code < 400 THEN [raised |-> "none"]
     ELSE IF 400 <= status_code /\ status_code < 500
       THEN IF response.body.kind = "invalid"
              THEN [raised |-> "ClientError", status_code |-> status_code,
                    error_code |-> "None", error_message |-> response.body.text,
                    header |-> "None", error_data |-> response.headers]
            ELSE IF response.body.kind # "object" THEN [raised |-> "TypeError"]
            ELSE IF "code" \notin DOMAIN err \/ "msg" \notin DOMAIN err
              THEN [raised |-> "KeyError"]
            ELSE [raised |-> "ClientError", status_code |-> status_code,
                  error_code |-> err["code"], error_message |-> err["msg"],
                  header |-> response.headers,
                  error_data |-> IF "data" \in DOMAIN err THEN err["data"] ELSE "None"]
     ELSE [raised |-> "ServerError", status_code |-> status_code,
           message |-> response.body.text]

\* API.post once the session has returned a response.
post(response) ==
  IF _handle_exception(response).raised # "none" THEN _handle_exception(response)
  ELSE IF response.body.kind = "invalid"
    THEN [raised |-> "none",
          result |-> [error |-> <<"Could not parse JSON: ", response.body.text>>]]
  ELSE [raised |-> "none", result |-> response.body.json]

PostInputs ==
  {[op |-> "input", f |-> "Post",
    response |-> [status_code |-> c, body |-> b, headers |-> h]] :
     c \in StatusCodes, b \in Bodies, h \in Headers}

\* API.post applied to the response of the server.
Post ==
  /\ fn.op = "input"
  /\ fn.f = "Post"
  /\ fn' = [op |-> "Post", response |-> fn.response, out |-> post(fn.response)]
  /\ UNCHANGED manager_state

\* ------------------------------------------- exchange.py: signed L1 methods
\* Exchange.noop(nonce); what it returns is what _post_action posted.
noop(self, nonce) ==
  LET action == <<<<"type", "noop">>>>
      signature == sign_l1_action(self.wallet, action, self.vault_address, nonce,
                                  self.expires_after, self.is_mainnet)
  IN _post_action(self, action, signature, nonce)

\* Exchange.set_referrer(code), timestamp being get_timestamp_ms().
set_referrer(self, code, timestamp) ==
  LET set_referrer_action == <<<<"type", "setReferrer">>, <<"code", code>>>>
      signature == sign_l1_action(self.wallet, set_referrer_action, None, timestamp,
                                  self.expires_after, self.is_mainnet)
  IN _post_action(self, set_referrer_action, signature, timestamp)

ReferralCode == <<"a", "b">>

ExchangeCallInputs ==
  {[op |-> "input", f |-> "ExchangeCall", method |-> m, self |-> x, nonce |-> n] :
     m \in {"noop", "set_referrer"}, x \in Exchanges, n \in {1, 256}}

\* One of the methods that sign an L1 action and post it.
ExchangeCall ==
  /\ fn.op = "input"
  /\ fn.f = "ExchangeCall"
  /\ fn' = [op |-> "ExchangeCall", method |-> fn.method, self |-> fn.self,
            posted |-> IF fn.method = "noop" THEN noop(fn.self, fn.nonce)
                       ELSE set_referrer(fn.self, ReferralCode, fn.nonce)]
  /\ UNCHANGED manager_state


\* ------------------------------------------------------- Info: coin names
MaxSpot == 2
MaxPerp == 1

EmptyDict == [k \in {} |-> <<>>]

\* d[k] = v on a dict.
DictSet(d, k, v) == [x \in DOMAIN d \cup {k} |-> IF x = k THEN v ELSE d[x]]

\* spot_meta["tokens"]; the universe's "tokens" pairs index this list.
SpotTokens == <<[name |-> <<"A">>], [name |-> <<"B">>]>>

\* f'{base_info["name"]}/{quote_info["name"]}'
PairName(base_info, quote_info) == base_info.name \o <<"/">> \o quote_info.name

\* The loop over spot_meta["universe"] from entry i on (lines 42-52).
RECURSIVE SpotUniverseLoop(_, _, _)
RECURSIVE SpotUniverseLoop_PairNameOverwrites(_, _, _)
SpotUniverseLoop_PairNameOverwrites(spot_meta, i, d) ==
  IF i > Len(spot_meta.universe) THEN d
  ELSE LET spot_info == spot_meta.universe[i]
           d1 == DictSet(d, spot_info.name, spot_info.name)
           name == PairName(spot_meta.tokens[spot_info.tokens[1]],
                            spot_meta.tokens[spot_info.tokens[2]])
           d2 == DictSet(d1, name, spot_info.name)
       IN SpotUniverseLoop_PairNameOverwrites(spot_meta, i + 1, d2)
SpotUniverseLoop(spot_meta, i, d) ==
  IF i > Len(spot_meta.universe) THEN d
  ELSE LET spot_info == spot_meta.universe[i]
           d1 == DictSet(d, spot_info.name, spot_info.name)
           name == PairName(spot_meta.tokens[spot_info.tokens[1]],
                            spot_meta.tokens[spot_info.tokens[2]])
           d2 == IF name \in DOMAIN d1 THEN d1 ELSE DictSet(d1, name, spot_info.name)
       IN SpotUniverseLoop(spot_meta, i + 1, d2)

\* set_perp_meta's writes to name_to_coin, from entry i of the universe on.
RECURSIVE set_perp_meta(_, _, _)
set_perp_meta(meta, i, d) ==
  IF i > Len(meta.universe) THEN d
  ELSE set_perp_meta(meta, i + 1,
                     DictSet(d, meta.universe[i].name, meta.universe[i].name))

\* self.name_to_coin once Info.__init__ has returned (one perp dex).
name_to_coin(spot_meta, meta) ==
  set_perp_meta(meta, 1, SpotUniverseLoop(spot_meta, 1, EmptyDict))

RemappedTypes == {"l2Book", "trades", "candle", "bbo", "activeAssetCtx"}

\* _remap_coin_subscription: the caller's dict after the call, or KeyError.
_remap_coin_subscription(n2c, subscription) ==
  IF subscription.type \in RemappedTypes
    THEN IF subscription.coin \in DOMAIN n2c
           THEN [raised |-> "none",
                 subscription |-> [subscription EXCEPT !.coin = n2c[subscription.coin]]]
           ELSE [raised |-> "KeyError", subscription |-> subscription]
    ELSE [raised |-> "none", subscription |-> subscription]

SpotNames == {<<"A", "/", "B">>, <<"@", "1">>}
PerpNames == {ETH, <<"A", "/", "B">>}
CoinNames == SpotNames \cup PerpNames \cup {<<"B", "/", "A">>}

UpTo(S, n) == UNION {[1..k -> S] : k \in 0..n}

SpotMetas ==
  {[universe |-> u, tokens |-> SpotTokens] :
     u \in UpTo([name : SpotNames, tokens : {<<b, q>> : b \in 1..2, q \in 1..2}], MaxSpot)}
Metas == {[universe |-> u] : u \in UpTo([name : PerpNames], MaxPerp)}

InfoSubscriptions ==
  {[type |-> t, coin |-> c] : t \in {"l2Book", "trades", "bbo"}, c \in CoinNames}
    \cup {UserEventsA}

InfoInputs ==
  {[op |-> "input", f |-> "InfoSubscribeThenUnsubscribe", spot_meta |-> sm, meta |-> m,
    subscription |-> r] : sm \in SpotMetas, m \in Metas, r \in InfoSubscriptions}

\* Info.subscribe and then Info.unsubscribe with the same dict object: what the
\* dict holds when each call reaches the manager.
InfoSubscribeThenUnsubscribe ==
  /\ fn.op = "input"
  /\ fn.f = "InfoSubscribeThenUnsubscribe"
  /\ LET n2c == name_to_coin(fn.spot_meta, fn.meta)
         first == _remap_coin_subscription(n2c, fn.subscription)
         second == IF first.raised = "none"
                     THEN _remap_coin_subscription(n2c, first.subscription)
                     ELSE first
     IN fn' = [op |-> "InfoSubscribeThenUnsubscribe", name_to_coin |-> n2c,
               subscription |-> fn.subscription,
               subscribed |-> first, unsubscribed |-> second]
  /\ UNCHANGED manager_state

FnInputs ==
  RouteInputs \cup PairInputs \cup HashInputs \cup HashPairInputs \cup UserSignInputs
    \cup MultiSigInputs \cup FloatInputs \cup PostActionInputs \cup PostInputs
    \cup ExchangeCallInputs \cup InfoInputs

InitFn == InitSession /\ fn \in FnInputs

NextFn ==
  \/ Route
  \/ IdentifyPair
  \/ Hash
  \/ HashPair
  \/ SignUser
  \/ SignMultiSig
  \/ FloatToInt
  \/ PostAction
  \/ Post
  \/ ExchangeCall
  \/ InfoSubscribeThenUnsubscribe

SpecFn == InitFn /\ [][NextFn]_vars

\* Every caller is outside subscribe and on_open has finished.
Quiescent ==
  /\ \A t \in Callers : th[t].pc = "idle"
  /\ th[SocketThread].pc = "oo_done"

TypeOK ==
  /\ subscription_id_counter \in 0..MaxId
  /\ ws_ready \in BOOLEAN
  /\ sock \in {"none", "connected", "closed"}

\* ===================================================================
\* Properties
\* ===================================================================
KeyOf(subscription) == subscription_to_identifier(subscription)

\* The identifiers that have at least one ActiveSubscription.
ActiveKeys == {k \in Identifiers : active_subscriptions[k] # <<>>}

Entries(seq) == {seq[i] : i \in 1..Len(seq)}

\* C1: subscribe before the socket has opened never raises and nothing is sent
\* while ws_ready is false; the step in which on_open runs sends exactly one
\* subscribe message per queued request, in queue order, and every queued
\* request is in the registry afterwards.
C1_QueuedSentOnOpen ==
  [][ /\ ~ws_ready' =>
           /\ last'.sent = <<>>
           /\ (last'.op = "subscribe" => last'.raised = "none")
      /\ (~ws_ready /\ ws_ready') =>
           /\ last'.sent = [i \in 1..Len(queued_subscriptions) |->
                              SubscribeMsg(queued_subscriptions[i].subscription)]
           /\ \A i \in 1..Len(queued_subscriptions) :
                queued_subscriptions[i].active_subscription \in
                  Entries(active_subscriptions'[KeyOf(queued_subscriptions[i].subscription)])
    ]_vars

\* C2: in the Ready state a subscribe whose identifier already has a subscriber
\* with a different callback sends no further subscribe message (the one sent
\* for the first subscriber is the only one).
C2_SecondSubscriberSendsNothing ==
  [][ ( /\ Ready
        /\ last'.op = "subscribe"
        /\ last'.raised = "none"
        /\ active_subscriptions[KeyOf(last'.subscription)] # <<>>
        /\ \A e \in Entries(active_subscriptions[KeyOf(last'.subscription)]) :
             e.callback # last'.callback )
      => last'.sent = <<>>
    ]_vars

\* C3: in the Ready state unsubscribe sends one unsubscribe message exactly when
\* it leaves the identifier's list empty and nothing otherwise, it removes the
\* entries with the given id, and a message for an identifier with a single
\* remaining subscriber is delivered to that subscriber.
C3_UnsubscribeSendsWhenEmpty ==
  [][ /\ (Ready /\ last'.op = "unsubscribe") =>
           LET k == KeyOf(last'.subscription)
           IN /\ last'.raised = "none"
              /\ active_subscriptions'[k] =
                   SelectSeq(active_subscriptions[k],
                             LAMBDA x : x.subscription_id # last'.subscription_id)
              /\ last'.sent =
                   IF active_subscriptions'[k] = <<>>
                     THEN <<UnsubscribeMsg(last'.subscription)>> ELSE <<>>
              /\ last'.result = (active_subscriptions'[k] # active_subscriptions[k])
      /\ (last'.op = "on_message"
            /\ ResolvedKey(last'.ws_msg) \in Identifiers \ {None}
            /\ Len(active_subscriptions[ResolvedKey(last'.ws_msg)]) = 1) =>
           last'.calls = active_subscriptions[ResolvedKey(last'.ws_msg)]
    ]_vars

\* Two subscribers were under the identifier, one has just been removed and
\* nothing was sent.
C3_Witness ==
  /\ Ready
  /\ last.op = "unsubscribe"
  /\ last.result
  /\ last.sent = <<>>
  /\ Len(active_subscriptions[KeyOf(last.subscription)]) = 1

ResubscribedEveryKey ==
  /\ last.op = "on_open"
  /\ {KeyOf(last.sent[i].subscription) : i \in 1..Len(last.sent)} = ActiveKeys
  /\ Len(last.sent) = Cardinality(ActiveKeys)

C7_ReturnedIdsDistinct ==
  \A i, j \in 1..Len(returned) :
    i # j => returned[i].subscription_id # returned[j].subscription_id

\* C8: when every caller has returned and on_open has finished, every
\* subscription whose subscribe returned an id has its subscribe message on the
\* wire and exactly one entry in the registry.
C8_NoSubscribeLost ==
  Quiescent =>
    \A n \in 1..Len(returned) :
      LET r == returned[n]
          list == active_subscriptions[KeyOf(r.subscription)]
      IN /\ Cardinality({i \in 1..Len(list) :
                           list[i] = ActiveSubscription(r.callback, r.subscription_id)}) = 1
         /\ SubscribeMsg(r.subscription) \in Entries(wire)

\* C9: the lists of userEvents and orderUpdates never hold more than one entry,
\* and a subscribe to a populated one with ws_ready set raises and changes nothing.
C9_SingletonTopics ==
  /\ [](\A k \in SingletonIdentifiers : Len(active_subscriptions[k]) <= 1)
  /\ [][ ( /\ ws_ready
           /\ last'.op = "subscribe"
           /\ KeyOf(last'.subscription) \in SingletonIdentifiers
           /\ active_subscriptions[KeyOf(last'.subscription)] # <<>> )
         => /\ last'.raised = "NotImplementedError"
            /\ last'.sent = <<>>
            /\ active_subscriptions' = active_subscriptions
       ]_vars

\* A second subscribe to a singleton topic has just been rejected in the Ready state.
C9_Witness ==
  /\ Ready
  /\ last.op = "subscribe"
  /\ last.raised = "NotImplementedError"
  /\ Len(active_subscriptions[KeyOf(last.subscription)]) = 1

\* C10: a message that is not a pong and resolves to an identifier is delivered
\* to every entry of that identifier's list, once each, in list order.
C10_DeliveredToEveryCallback ==
  [][ ( /\ last'.op = "on_message"
        /\ ResolvedKey(last'.ws_msg) \in Identifiers \ {None} )
      => last'.calls = active_subscriptions[ResolvedKey(last'.ws_msg)]
    ]_vars

\* C11: in the Ready state unsubscribe with an id that is not registered under
\* the request's identifier returns false, sends nothing and leaves the
\* registry as it was.
C11_UnknownIdHasNoEffect ==
  [][ ( /\ Ready
        /\ last'.op = "unsubscribe"
        /\ \A e \in Entries(active_subscriptions[KeyOf(last'.subscription)]) :
             e.subscription_id # last'.subscription_id )
      => /\ last'.result = FALSE
         /\ last'.raised = "none"
         /\ last'.sent = <<>>
         /\ active_subscriptions' = active_subscriptions
    ]_vars

\* C12: subscribe and unsubscribe raise only for a duplicate subscription to a
\* singleton topic, never because of the state of the connection.
C12_RaisesOnlyProgrammingErrors ==
  [][ (last'.op \in {"subscribe", "unsubscribe"} /\ last'.raised # "none")
      => /\ last'.op = "subscribe"
         /\ last'.raised = "NotImplementedError"
         /\ KeyOf(last'.subscription) \in SingletonIdentifiers
         /\ active_subscriptions[KeyOf(last'.subscription)] # <<>>
    ]_vars

C14_NothingRunsAfterStop ==
  [][ stops_returned > 0
      => /\ last'.op # "InvokeCallback"
         /\ \A t \in LoopThreads : loops[t] = "terminated"
         /\ last'.op \in {"StopSetFlags", "StopCloseSocket", "JoinThread", "StopReturn"}
            => /\ last'.raised = "none"
               /\ running' = running
               /\ stop_event' = stop_event
               /\ sock' = sock
    ]_vars

\* C16: every subscription of the Subscription union has an identifier, and the
\* message the server sends for it resolves to that identifier whatever the
\* letter case of the coin or the address on either side.
C16_EverySubscriptionRoutes ==
  fn.op = "Route" => (fn.identifier # None /\ fn.resolved = fn.identifier)

\* Two subscriptions are the same request: same type and parameters, coins and
\* addresses compared without regard to letter case.
Field(r, f) == IF f \in DOMAIN r THEN Lower(r[f]) ELSE <<>>

SameRequest(r1, r2) ==
  /\ r1.type = r2.type
  /\ \A f \in {"coin", "user", "interval"} : Field(r1, f) = Field(r2, f)

\* C17: two subscriptions with the same identifier are the same request, so
\* that the request can be recovered from the identifier.
C17_IdentifierDeterminesRequest ==
  (fn.op = "IdentifyPair" /\ fn.k1 = fn.k2) => SameRequest(fn.r1, fn.r2)

RECURSIVE FromBytes(_)
\* The integer a big-endian byte string stands for.
FromBytes(bytes) ==
  IF bytes = <<>> THEN 0
  ELSE FromBytes(SubSeq(bytes, 1, Len(bytes) - 1)) * 256 + bytes[Len(bytes)]

\* The lower-case hexadecimal text of a byte string.
HexOf(bytes) ==
  [i \in 1..(2 * Len(bytes)) |->
     IF i % 2 = 1 THEN HexDigits[(bytes[(i + 1) \div 2] \div 16) + 1]
     ELSE HexDigits[(bytes[i \div 2] % 16) + 1]]

\* The address a text names: its digits without prefix, in lower case.
AddressOf(address) ==
  IF address = None THEN None
  ELSE [i \in 1..Len(StripHexPrefix(address)) |-> HexLower(StripHexPrefix(address)[i])]

\* C18: the byte string action_hash hashes is the encoded action, then 8 bytes
\* that read big-endian as the nonce, then 0x00 when there is no vault address
\* or 0x01 and the 20 bytes of the address, then, only when expires_after is
\* given, 0x00 and 8 bytes that read big-endian as expires_after, and nothing
\* after that.
C18_HashedBytesLayout ==
  fn.op = "Hash" =>
    LET d == fn.digest.preimage
        p == Len(packb(fn.action))
        rest == IF fn.vault_address = None THEN p + 10 ELSE p + 30
    IN /\ SubSeq(d, 1, p) = packb(fn.action)
       /\ Len(d) >= p + 9
       /\ FromBytes(SubSeq(d, p + 1, p + 8)) = fn.nonce
       /\ IF fn.vault_address = None THEN d[p + 9] = 0
          ELSE /\ d[p + 9] = 1
               /\ Len(d) >= p + 29
               /\ HexOf(SubSeq(d, p + 10, p + 29)) = AddressOf(fn.vault_address)
       /\ IF fn.expires_after.is_none THEN Len(d) = rest - 1
          ELSE /\ Len(d) = rest + 8
               /\ d[rest] = 0
               /\ FromBytes(SubSeq(d, rest + 1, rest + 8)) = fn.expires_after.value

\* A hash over a vault address, a nonce above 2^24 and an expiry has been taken.
C18_Witness ==
  /\ fn.op = "Hash"
  /\ fn.vault_address = AddrAB
  /\ fn.nonce = 16777217
  /\ fn.expires_after = Some(65536)
  /\ Len(fn.action) = 2

\* C19: for one action, two (vault_address, nonce, expires_after) triples that
\* differ in the address named, in the nonce or in expires_after (None being
\* different from every integer, 0 included) are hashed from different byte
\* strings.
C19_DistinctTriplesDistinctBytes ==
  (fn.op = "HashPair"
     /\ \/ AddressOf(fn.v1) # AddressOf(fn.v2)
        \/ fn.n1 # fn.n2
        \/ fn.e1.is_none # fn.e2.is_none
        \/ (~fn.e1.is_none /\ ~fn.e2.is_none /\ fn.e1.value # fn.e2.value))
    => fn.d1.preimage # fn.d2.preimage

\* The same action, vault address and nonce hashed without expiry and with
\* expires_after = 0.
C19_Witness ==
  /\ fn.op = "HashPair"
  /\ fn.v1 = fn.v2
  /\ fn.v1 # None
  /\ fn.n1 = fn.n2
  /\ fn.e1 = NoneInt
  /\ fn.e2 = Some(0)

ChainFields == {"signatureChainId", "hyperliquidChain"}

\* C20: sign_user_signed_action leaves the action with signatureChainId
\* "0x66eee" and hyperliquidChain "Mainnet" or "Testnet" according to
\* is_mainnet, whatever the caller had put there, and with every other field as
\* it was; the document signed has that action as its message and 0x66eee
\* (421614) as its domain chain id.
C20_UserSignedActionStamped ==
  fn.op = "SignUser" =>
    LET action == fn.out.action
        document == fn.out.signature.signed
    IN /\ action["signatureChainId"] = <<"0", "x", "6", "6", "e", "e", "e">>
       /\ action["hyperliquidChain"] = (IF fn.is_mainnet THEN "Mainnet" ELSE "Testnet")
       /\ DOMAIN action = DOMAIN fn.before \cup ChainFields
       /\ \A k \in DOMAIN fn.before \ ChainFields : action[k] = fn.before[k]
       /\ document.message = action
       /\ document.message["hyperliquidChain"] = (IF fn.is_mainnet THEN "Mainnet" ELSE "Testnet")
       /\ document.domain.chainId = 421614
       /\ document.primaryType = fn.primary_type

\* A mainnet signature over an action the caller had stamped for another
\* chain id and for Testnet.
C20_Witness ==
  /\ fn.op = "SignUser"
  /\ fn.is_mainnet
  /\ "signatureChainId" \in DOMAIN fn.before
  /\ fn.before["signatureChainId"] = <<"0", "x", "a", "4", "b", "1">>
  /\ "hyperliquidChain" \in DOMAIN fn.before
  /\ fn.before["hyperliquidChain"] = "Testnet"

\* The character a byte stands for.
Chr(byte) == CHOOSE c \in {"0", "1", "A", "B", "a", "b", "f", "x"} : Ord(c) = byte

\* The text of the str 8 value that starts at position at of a byte string.
StrAt(bytes, at) == [i \in 1..bytes[at + 1] |-> Chr(bytes[at + 1 + i])]

\* C21: the two signers of one multi-sig L1 action sign the same document when
\* they name the same multi-sig user and outer signer, whatever their wallets
\* and the letter case they write the addresses in, and different documents
\* when they name different ones; the document is the L1 document (Agent,
\* chain id 1337, source by network) over the digest of a three-element list
\* whose first two elements are the lower-cased addresses and whose third is
\* the inner action, followed by what action_hash appends; the inner action is
\* as the caller built it.
C21_MultiSigSignersSignOneDocument ==
  fn.op = "SignMultiSig" =>
    LET d1 == fn.s1.signed
        d2 == fn.s2.signed
        bytes == d1.message.connectionId.preimage
        inner == action_hash(fn.action, fn.vault_address, fn.timestamp,
                             fn.expires_after).preimage
    IN /\ (Lower(fn.u1) = Lower(fn.u2) /\ Lower(fn.o1) = Lower(fn.o2)) <=> (d1 = d2)
       /\ fn.s1.signer = fn.w1 /\ fn.s2.signer = fn.w2
       /\ d1.primaryType = "Agent"
       /\ d1.domain.chainId = 1337
       /\ d1.message.source = (IF fn.is_mainnet THEN "a" ELSE "b")
       /\ bytes[1] = 147
       /\ bytes[2] = 217
       /\ StrAt(bytes, 2) = Lower(fn.u1)
       /\ StrAt(bytes, 4 + Len(fn.u1)) = Lower(fn.o1)
       /\ SubSeq(bytes, 6 + Len(fn.u1) + Len(fn.o1), Len(bytes)) = inner
       /\ fn.action = fn.before

\* Two wallets have signed for the same multi-sig user and outer signer,
\* written in different letter case.
C21_Witness ==
  /\ fn.op = "SignMultiSig"
  /\ fn.w1 # fn.w2
  /\ fn.u1 = Addr0xab /\ fn.u2 = Addr0xAB
  /\ fn.o1 = Addr0xAB /\ fn.o2 = Addr0xab
  /\ fn.vault_address # None
  /\ ~fn.expires_after.is_none

\* The decimal places the conversion of fn keeps, and the part of x beyond
\* them, in units of x's last digit.
KeptPlaces == IF fn.conversion = "float_to_usd_int" THEN 6 ELSE 8
Beyond == fn.x.units % Pow10(fn.x.decimals - KeptPlaces)

C23_PostedPayload ==
  fn.op = "PostAction" =>
    /\ fn.posted.url_path = "/exchange"
    /\ fn.posted.payload.action = fn.action
    /\ fn.posted.payload.nonce = fn.nonce
    /\ fn.posted.payload.signature = fn.signature
    /\ (fn.action[1][2] = "usdClassTransfer" \/ fn.action[1][2] = "sendAsset")
         => fn.posted.payload.vaultAddress = None
    /\ (fn.action[1][2] # "usdClassTransfer" /\ fn.action[1][2] # "sendAsset")
         => fn.posted.payload.vaultAddress = fn.self.vault_address

\* A sendAsset action has been posted by an exchange with a vault address.
C23_Witness ==
  /\ fn.op = "PostAction"
  /\ fn.action[1][2] = "sendAsset"
  /\ fn.self.vault_address # None

\* C24: API.post returns the parsed body, or the "Could not parse JSON" error
\* value when the body is not JSON, for a status below 400; raises ClientError
\* with the status code, the response headers and the code, message and data
\* present in the body for every status from 400 to 499; and raises
\* ServerError with the status code and the body text for every status of 500
\* or more.
C24_StatusToOutcome ==
  fn.op = "Post" =>
    LET response == fn.response
        json == response.body.json
        object == response.body.kind = "object"
    IN /\ response.status_code < 400 =>
            /\ fn.out.raised = "none"
            /\ response.body.kind # "invalid" => fn.out.result = json
            /\ response.body.kind = "invalid" =>
                 fn.out.result = [error |-> <<"Could not parse JSON: ", response.body.text>>]
       /\ (response.status_code >= 400 /\ response.status_code < 500) =>
            /\ fn.out.raised = "ClientError"
            /\ fn.out.status_code = response.status_code
            /\ fn.out.header = response.headers
            /\ (object /\ "code" \in DOMAIN json) => fn.out.error_code = json["code"]
            /\ (object /\ "msg" \in DOMAIN json) => fn.out.error_message = json["msg"]
            /\ (object /\ "data" \in DOMAIN json) => fn.out.error_data = json["data"]
       /\ response.status_code >= 500 =>
            /\ fn.out.raised = "ServerError"
            /\ fn.out.status_code = response.status_code
            /\ fn.out.message = response.body.text

\* C25: in what a method that signs an L1 action posts, vaultAddress, nonce and
\* expiresAfter are the values read back from the bytes the signed digest was
\* taken over.
C25_PostedMatchesSigned ==
  fn.op = "ExchangeCall" =>
    LET payload == fn.posted.payload
        d == payload.signature.signed.message.connectionId.preimage
        p == Len(packb(payload.action))
        rest == IF d[p + 9] = 0 THEN p + 10 ELSE p + 30
    IN /\ FromBytes(SubSeq(d, p + 1, p + 8)) = payload.nonce
       /\ (d[p + 9] = 0) <=> (payload.vaultAddress = None)
       /\ d[p + 9] # 0 =>
            HexOf(SubSeq(d, p + 10, p + 29)) = AddressOf(payload.vaultAddress)
       /\ (Len(d) = rest - 1) <=> payload.expiresAfter.is_none
       /\ Len(d) # rest - 1 =>
            FromBytes(SubSeq(d, rest + 1, rest + 8)) = payload.expiresAfter.value

\* C26: a subscribe call that raises leaves the registry and the queue exactly
\* as they were before the call.
C26_SubscribeAtomicOnFailure ==
  [][ (last'.op = "subscribe" /\ last'.raised # "none")
      => /\ active_subscriptions' = active_subscriptions
         /\ queued_subscriptions' = queued_subscriptions
    ]_vars

\* C27: the dispatch loop only invokes callbacks that are registered at the
\* time: an entry unsubscribe has removed (and returned true for) is never
\* invoked afterwards, however the caller's unsubscribe and the loop interleave.
C27_NoCallbackAfterUnsubscribe ==
  [][ last'.op = "InvokeCallback"
      => last'.calls[1] \in Entries(active_subscriptions[ResolvedKey(last'.ws_msg)])
    ]_vars

\* C28: while on_open has not fired and nobody has called stop(), a pass of the
\* health checker leaves the session running (the stop event stays clear), so
\* the queued subscriptions are still sent when the socket opens.
C28_HealthCheckSparesConnecting ==
  [][ (last'.op = "_health_check" /\ ~ws_ready /\ ~stop_event /\ ~close_requested)
      => (~stop_event' /\ running')
    ]_vars

\* C29: the ping sender's loop ends only when the stop event is set: a ping
\* thread that was waiting never terminates while the session is not stopped.
C29_PingLoopEndsOnlyOnStop ==
  [][ (loops["ping_sender"] = "waiting" /\ loops'["ping_sender"] = "terminated")
      => stop_event
    ]_vars

\* C30: name_to_coin is idempotent on its own names, and a subscription dict
\* that Info.subscribe has rewritten resolves, in Info.unsubscribe, to the same
\* coin and the same identifier.
C30_RemapIdempotent ==
  fn.op = "InfoSubscribeThenUnsubscribe"
    => /\ \A n \in DOMAIN fn.name_to_coin :
            /\ fn.name_to_coin[n] \in DOMAIN fn.name_to_coin
            /\ fn.name_to_coin[fn.name_to_coin[n]] = fn.name_to_coin[n]
       /\ fn.subscribed.raised = "none"
            => /\ fn.unsubscribed.raised = "none"
               /\ fn.unsubscribed.subscription = fn.subscribed.subscription
               /\ subscription_to_identifier(fn.unsubscribed.subscription)
                    = subscription_to_identifier(fn.subscribed.subscription)

\* A pair name that maps to another coin was subscribed and the dict rewritten.
C30_Witness ==
  /\ fn.op = "InfoSubscribeThenUnsubscribe"
  /\ fn.subscription.type = "l2Book"
  /\ fn.subscribed.raised = "none"
  /\ fn.subscribed.subscription.coin # fn.subscription.coin
  /\ fn.unsubscribed.subscription.coin = fn.subscribed.subscription.coin
  /\ Cardinality(DOMAIN fn.name_to_coin) >= 4

====
